---- MODULE Spec2Model ----
(***************************************************************************)
(* A model of the DuckDB FQE HTTP client (src/duckdb_client.py) and of the *)
(* connection test script (src/test_connection_updated.py).                *)
(*                                                                         *)
(* Python strings that the code builds, formats or inspects are sequences  *)
(* of one-character strings, so that concatenation, joining, substring     *)
(* tests and number formatting are computed as the code computes them.     *)
(* Decoded JSON values are tagged records (PyNone, PyInt, PyStr, PyList,   *)
(* PyDict).  The HTTP service is the environment: every request is         *)
(* answered by a nondeterministically chosen response.                     *)
(***************************************************************************)
EXTENDS Integers, Sequences, FiniteSets, TLC

(***************************************************************************)
(* State.                                                                  *)
(***************************************************************************)
VARIABLES
    pc,                  \* where the running program is
    new_requests,        \* the installed requests raises its own JSONDecodeError
    op,                  \* the client method called last
    args,                \* its arguments
    response,                \* the last response of the service
    sent,                \* the requests the call sent
    outcome,             \* what the call returned or raised
    now,                 \* time.time()
    start_time,          \* wait_for_ready: start_time
    max_wait,            \* wait_for_ready: max_wait
    probes,              \* wait_for_ready: calls of is_healthy so far
    sleeps,              \* wait_for_ready: calls of time.sleep so far
    last_health,         \* wait_for_ready: what the last probe returned
    probe_elapsed,       \* wait_for_ready: now - start_time when the last probe began
    existing_dbs,        \* test script, setup_databases: existing_dbs
    ready,               \* test script: wait_for_service returned True
    setup_ok,            \* test script: setup_databases returned True
    ran,                 \* test script: the checks run so far, by name
    verdicts,            \* test script: "pass", "fail" or "raise" for each of them
    passed,              \* test script, run_all_tests: passed
    exit_code,           \* test script: the exit status of the process, -1 while it runs
    exit_reason,         \* test script: what ended the process
    session_closed,      \* example program: close() was called on the session
    scope_exc,           \* example program: the exception leaving the with block
    main_requests,       \* example program: the requests sent so far
    late_requests        \* example program: those sent after the session was closed

(***************************************************************************)
(* String literals of the source and of the sample inputs and bodies.      *)
(***************************************************************************)
\* the string "Query failed with status "
S_QueryFailed ==
    <<"Q","u","e","r","y"," ","f","a","i","l","e","d"," ","w","i","t","h"," ","s","t","a","t",
    "u","s"," ">>

\* the string ": "
S_ColonSp ==
    <<":"," ">>

\* the string "Request failed: "
S_RequestFailed ==
    <<"R","e","q","u","e","s","t"," ","f","a","i","l","e","d",":"," ">>

\* the string "Connection refused"
S_ConnRefused ==
    <<"C","o","n","n","e","c","t","i","o","n"," ","r","e","f","u","s","e","d">>

\* the string "Read timed out"
S_ReadTimedOut ==
    <<"R","e","a","d"," ","t","i","m","e","d"," ","o","u","t">>

\* the string "Connection broken"
S_ChunkBroken ==
    <<"C","o","n","n","e","c","t","i","o","n"," ","b","r","o","k","e","n">>

\* the string "Expecting value"
S_JSONDecodeMsg ==
    <<"E","x","p","e","c","t","i","n","g"," ","v","a","l","u","e">>

\* the string "query"
S_query ==
    <<"q","u","e","r","y">>

\* the string "params"
S_params ==
    <<"p","a","r","a","m","s">>

\* the string "data"
S_data ==
    <<"d","a","t","a">>

\* the string "columns"
S_columns ==
    <<"c","o","l","u","m","n","s">>

\* the string "count"
S_count ==
    <<"c","o","u","n","t">>

\* the string "result"
S_result ==
    <<"r","e","s","u","l","t">>

\* the string "message"
S_message ==
    <<"m","e","s","s","a","g","e">>

\* the string "SELECT "
S_SELECT ==
    <<"S","E","L","E","C","T"," ">>

\* the string " FROM "
S_FROM ==
    <<" ","F","R","O","M"," ">>

\* the string " JOIN "
S_JOIN ==
    <<" ","J","O","I","N"," ">>

\* the string " ON "
S_ON ==
    <<" ","O","N"," ">>

\* the string " WHERE "
S_WHERE ==
    <<" ","W","H","E","R","E"," ">>

\* the string " AND "
S_AND ==
    <<" ","A","N","D"," ">>

\* the string ", "
S_CommaSp ==
    <<","," ">>

\* the string "*"
S_Star ==
    <<"*">>

\* the string " LIMIT "
S_LIMIT ==
    <<" ","L","I","M","I","T"," ">>

\* the string "SELECT COUNT(" + "*" + ") as count FROM "
S_CountQuery ==
    <<"S","E","L","E","C","T"," ","C","O","U","N","T","(","*",")"," ","a","s"," ","c","o","u",
    "n","t"," ","F","R","O","M"," ">>

\* the string "SELECT 1"
S_SelectOne ==
    <<"S","E","L","E","C","T"," ","1">>

\* the string "a"
T_a ==
    <<"a">>

\* the string "b"
T_b ==
    <<"b">>

\* the string "c"
T_c ==
    <<"c">>

\* the string "a.id=b.id"
J_ab ==
    <<"a",".","i","d","=","b",".","i","d">>

\* the string "b.id=c.id"
J_bc ==
    <<"b",".","i","d","=","c",".","i","d">>

\* the string "a.x"
Col_ax ==
    <<"a",".","x">>

\* the string "b.y"
Col_by ==
    <<"b",".","y">>

\* the string "a.x>1"
W_ax ==
    <<"a",".","x",">","1">>

\* the string "b.y<2"
W_by ==
    <<"b",".","y","<","2">>

\* the string "SELECT * FROM a JOIN b ON a.id=b.id JOIN c ON b.id=c.id"
S_Example1 ==
    <<"S","E","L","E","C","T"," ","*"," ","F","R","O","M"," ","a"," ","J","O","I","N"," ","b",
    " ","O","N"," ","a",".","i","d","=","b",".","i","d"," ","J","O","I","N"," ","c"," ","O","N",
    " ","b",".","i","d","=","c",".","i","d">>

\* the string "SELECT a.x FROM a JOIN b ON a.id=b.id WHERE a.x>1 LIMIT 10"
S_Example2 ==
    <<"S","E","L","E","C","T"," ","a",".","x"," ","F","R","O","M"," ","a"," ","J","O","I","N",
    " ","b"," ","O","N"," ","a",".","i","d","=","b",".","i","d"," ","W","H","E","R","E"," ","a",
    ".","x",">","1"," ","L","I","M","I","T"," ","1","0">>

\* the string "postgres_db"
S_postgres_db ==
    <<"p","o","s","t","g","r","e","s","_","d","b">>

\* the string "mysql_db"
S_mysql_db ==
    <<"m","y","s","q","l","_","d","b">>

\* the string "mariadb_db"
S_mariadb_db ==
    <<"m","a","r","i","a","d","b","_","d","b">>

\* the string "memory"
S_memory ==
    <<"m","e","m","o","r","y">>

\* the string "PostgreSQL"
S_PostgreSQL ==
    <<"P","o","s","t","g","r","e","S","Q","L">>

\* the string "hi"
S_hi ==
    <<"h","i">>

\* the string "abc"
S_abc ==
    <<"a","b","c">>

\* the string "data columns"
S_DataColumns ==
    <<"d","a","t","a"," ","c","o","l","u","m","n","s">>

\* the string "OK"
B_NotJson ==
    <<"O","K">>

\* the string ""
B_Empty ==
    <<>>

\* the string "boom"
B_Boom ==
    <<"b","o","o","m">>

\* the string "not found"
B_NotFound ==
    <<"n","o","t"," ","f","o","u","n","d">>

\* the string "42"
B_Int ==
    <<"4","2">>

\* the string "0"
B_Zero ==
    <<"0">>

\* the string "null"
B_Null ==
    <<"n","u","l","l">>

\* the string "\"abc\""
B_Str ==
    <<"\"","a","b","c","\"">>

\* the string "\"data columns\""
B_StrDataColumns ==
    <<"\"","d","a","t","a"," ","c","o","l","u","m","n","s","\"">>

\* the string "[]"
B_EmptyList ==
    <<"[","]">>

\* the string "[{\"count\": 7}]"
B_ListCount ==
    <<"[","{","\"","c","o","u","n","t","\"",":"," ","7","}","]">>

\* the string "[{\"message\": \"hi\"}]"
B_ListNoCount ==
    <<"[","{","\"","m","e","s","s","a","g","e","\"",":"," ","\"","h","i","\"","}","]">>

\* the string "[{\"count\": 7}, {\"message\": \"hi\"}]"
B_ListTwoRows ==
    <<"[","{","\"","c","o","u","n","t","\"",":"," ","7","}",","," ","{","\"","m","e","s","s",
    "a","g","e","\"",":"," ","\"","h","i","\"","}","]">>

\* the string "[5]"
B_ListInt ==
    <<"[","5","]">>

\* the string "{\"data\": [[7]], \"columns\": [\"count\"]}"
B_Table ==
    <<"{","\"","d","a","t","a","\"",":"," ","[","[","7","]","]",","," ","\"","c","o","l","u",
    "m","n","s","\"",":"," ","[","\"","c","o","u","n","t","\"","]","}">>

\* the string "{\"data\": [], \"columns\": [\"count\"]}"
B_TableNoRows ==
    <<"{","\"","d","a","t","a","\"",":"," ","[","]",","," ","\"","c","o","l","u","m","n","s",
    "\"",":"," ","[","\"","c","o","u","n","t","\"","]","}">>

\* the string "{\"data\": [[]], \"columns\": []}"
B_TableEmptyRow ==
    <<"{","\"","d","a","t","a","\"",":"," ","[","[","]","]",","," ","\"","c","o","l","u","m",
    "n","s","\"",":"," ","[","]","}">>

\* the string "{\"message\": \"hi\"}"
B_Object ==
    <<"{","\"","m","e","s","s","a","g","e","\"",":"," ","\"","h","i","\"","}">>

\* the string "{}"
B_EmptyObject ==
    <<"{","}">>

\* the string "{\"data\": [[7]]}"
B_DataOnly ==
    <<"{","\"","d","a","t","a","\"",":"," ","[","[","7","]","]","}">>

\* the string "{\"data\": []}"
B_DataEmpty ==
    <<"{","\"","d","a","t","a","\"",":"," ","[","]","}">>

\* the string "{\"data\": [[]]}"
B_DataEmptyRow ==
    <<"{","\"","d","a","t","a","\"",":"," ","[","[","]","]","}">>

\* the string "{\"data\": 5}"
B_DataInt ==
    <<"{","\"","d","a","t","a","\"",":"," ","5","}">>

\* the string "{\"data\": [[\"postgres_db\"], [\"memory\"]]}"
B_DataDbs ==
    <<"{","\"","d","a","t","a","\"",":"," ","[","[","\"","p","o","s","t","g","r","e","s","_",
    "d","b","\"","]",","," ","[","\"","m","e","m","o","r","y","\"","]","]","}">>

\* the string "{\"data\": [[\"postgres_db\"], [\"mysql_db\"], [\"mariadb_db\"]]}"
B_DataAllDbs ==
    <<"{","\"","d","a","t","a","\"",":"," ","[","[","\"","p","o","s","t","g","r","e","s","_",
    "d","b","\"","]",","," ","[","\"","m","y","s","q","l","_","d","b","\"","]",","," ","[","\"",
    "m","a","r","i","a","d","b","_","d","b","\"","]","]","}">>

\* the string "{\"data\": [[\"memory\"]]}"
B_DataOtherDbs ==
    <<"{","\"","d","a","t","a","\"",":"," ","[","[","\"","m","e","m","o","r","y","\"","]","]",
    "}">>

\* the string "{\"data\": [[\"PostgreSQL\", 150, 4500]]}"
B_DataAgg ==
    <<"{","\"","d","a","t","a","\"",":"," ","[","[","\"","P","o","s","t","g","r","e","S","Q",
    "L","\"",","," ","1","5","0",","," ","4","5","0","0","]","]","}">>

\* the string "{\"data\": [[\"abc\", \"hi\", \"abc\"]]}"
B_DataStrRow ==
    <<"{","\"","d","a","t","a","\"",":"," ","[","[","\"","a","b","c","\"",","," ","\"","h","i",
    "\"",","," ","\"","a","b","c","\"","]","]","}">>


(***************************************************************************)
(* Python values.                                                          *)
(***************************************************************************)
PyNone == [type |-> "NoneType"]

PyInt(n) == [type |-> "int", n |-> n]

PyStr(s) == [type |-> "str", chars |-> s]

PyList(xs) == [type |-> "list", items |-> xs]

\* a dict is its (key, value) pairs in insertion order
PyDict(ps) == [type |-> "dict", pairs |-> ps]

KV(k, v) == [key |-> k, val |-> v]

\* the cell pandas puts where a row has no value for a column
NaN == [type |-> "NaN"]

Return(v) == [kind |-> "return", value |-> v]

\* a raised exception; msg is str(exception) where the code sets it
Raise(exc, msg) == [kind |-> "raise", exc |-> exc, msg |-> msg]

NoOutcome == [kind |-> "none"]

\* bool(v)
Truthy(v) ==
    CASE v.type = "NoneType" -> FALSE
      [] v.type = "int" -> v.n # 0
      [] v.type = "str" -> Len(v.chars) > 0
      [] v.type = "list" -> Len(v.items) > 0
      [] v.type = "dict" -> Len(v.pairs) > 0
      [] OTHER -> TRUE

\* sub occurs in s as a contiguous run of characters
IsSubstring(sub, s) ==
    \E i \in 0..(Len(s) - Len(sub)) :
        \A j \in 1..Len(sub) : s[i + j] = sub[j]

HasKey(d, k) == \E i \in 1..Len(d.pairs) : d.pairs[i].key = k

\* d[k] for a key that is present (the last pair wins, as in a dict literal)
DictGet(d, k) ==
    LET idx == {i \in 1..Len(d.pairs) : d.pairs[i].key = k}
        last == CHOOSE i \in idx : \A j \in idx : j <= i
    IN d.pairs[last].val

\* the expression  k in v  for a str k: membership of a dict's keys, of a
\* list's items, substring of a str; TypeError for a value that is no container
PyIn(k, v) ==
    CASE v.type = "dict" -> Return(HasKey(v, k))
      [] v.type = "list" -> Return(\E i \in 1..Len(v.items) : v.items[i] = PyStr(k))
      [] v.type = "str" -> Return(IsSubstring(k, v.chars))
      [] OTHER -> Raise("TypeError", <<>>)

\* the expression  v[k]  for a str k
PyGetKey(v, k) ==
    CASE v.type = "dict" -> IF HasKey(v, k) THEN Return(DictGet(v, k))
                                             ELSE Raise("KeyError", <<>>)
      [] OTHER -> Raise("TypeError", <<>>)

\* the expression  v[i]  for an int i >= 0
PyGetIndex(v, i) ==
    CASE v.type = "list" -> IF i < Len(v.items) THEN Return(v.items[i + 1])
                                                ELSE Raise("IndexError", <<>>)
      [] v.type = "str" -> IF i < Len(v.chars) THEN Return(PyStr(<<v.chars[i + 1]>>))
                                               ELSE Raise("IndexError", <<>>)
      [] v.type = "dict" -> Raise("KeyError", <<>>)
      [] OTHER -> Raise("TypeError", <<>>)

\* len(v)
PyLen(v) ==
    CASE v.type = "list" -> Return(Len(v.items))
      [] v.type = "str" -> Return(Len(v.chars))
      [] v.type = "dict" -> Return(Len(v.pairs))
      [] OTHER -> Raise("TypeError", <<>>)

\* the items  for x in v  visits
PyIter(v) ==
    CASE v.type = "list" -> Return(v.items)
      [] v.type = "str" -> Return([i \in 1..Len(v.chars) |-> PyStr(<<v.chars[i]>>)])
      [] v.type = "dict" -> Return([i \in 1..Len(v.pairs) |-> PyStr(v.pairs[i].key)])
      [] OTHER -> Raise("TypeError", <<>>)

RECURSIVE Digits(_)
\* the decimal digits of n >= 0
Digits(n) ==
    LET d == <<"0","1","2","3","4","5","6","7","8","9">>
    IN IF n < 10 THEN <<d[n + 1]>> ELSE Digits(n \div 10) \o <<d[(n % 10) + 1]>>

\* str(n) for an int
IntToStr(n) == IF n < 0 THEN <<"-">> \o Digits(-n) ELSE Digits(n)

RECURSIVE Join(_, _)
\* sep.join(parts)
Join(sep, parts) ==
    IF Len(parts) = 0 THEN <<>>
    ELSE IF Len(parts) = 1 THEN parts[1]
    ELSE parts[1] \o sep \o Join(sep, Tail(parts))

(***************************************************************************)
(* The HTTP service.  A request is answered by a transport failure (a      *)
(* requests.exceptions.RequestException) or by a status and a body text.   *)
(***************************************************************************)
Failure(exc) == [kind |-> "failure", exc |-> exc]

Http(status, text) == [kind |-> "http", status |-> status, text |-> text]

\* str(e) of a transport failure
ExcText(exc) ==
    CASE exc = "ConnectionError" -> S_ConnRefused
      [] exc = "Timeout" -> S_ReadTimedOut
      [] OTHER -> S_ChunkBroken

Row7 == PyList(<<PyInt(7)>>)

DbRow(name) == PyList(<<PyStr(name)>>)

\* json.loads(text) on the body texts of the model: the decoded value, or
\* ok = FALSE where the text is no JSON document
JsonLoads(text) ==
    LET Ok(v) == [ok |-> TRUE, value |-> v]
    IN CASE text = B_Int -> Ok(PyInt(42))
         [] text = B_Zero -> Ok(PyInt(0))
         [] text = B_Null -> Ok(PyNone)
         [] text = B_Str -> Ok(PyStr(S_abc))
         [] text = B_StrDataColumns -> Ok(PyStr(S_DataColumns))
         [] text = B_EmptyList -> Ok(PyList(<<>>))
         [] text = B_ListCount -> Ok(PyList(<<PyDict(<<KV(S_count, PyInt(7))>>)>>))
         [] text = B_ListNoCount ->
                Ok(PyList(<<PyDict(<<KV(S_message, PyStr(S_hi))>>)>>))
         [] text = B_ListTwoRows ->
                Ok(PyList(<<PyDict(<<KV(S_count, PyInt(7))>>),
                            PyDict(<<KV(S_message, PyStr(S_hi))>>)>>))
         [] text = B_ListInt -> Ok(PyList(<<PyInt(5)>>))
         [] text = B_Table ->
                Ok(PyDict(<<KV(S_data, PyList(<<Row7>>)),
                            KV(S_columns, PyList(<<PyStr(S_count)>>))>>))
         [] text = B_TableNoRows ->
                Ok(PyDict(<<KV(S_data, PyList(<<>>)),
                            KV(S_columns, PyList(<<PyStr(S_count)>>))>>))
         [] text = B_TableEmptyRow ->
                Ok(PyDict(<<KV(S_data, PyList(<<PyList(<<>>)>>)),
                            KV(S_columns, PyList(<<>>))>>))
         [] text = B_Object -> Ok(PyDict(<<KV(S_message, PyStr(S_hi))>>))
         [] text = B_EmptyObject -> Ok(PyDict(<<>>))
         [] text = B_DataOnly -> Ok(PyDict(<<KV(S_data, PyList(<<Row7>>))>>))
         [] text = B_DataEmpty -> Ok(PyDict(<<KV(S_data, PyList(<<>>))>>))
         [] text = B_DataEmptyRow ->
                Ok(PyDict(<<KV(S_data, PyList(<<PyList(<<>>)>>))>>))
         [] text = B_DataInt -> Ok(PyDict(<<KV(S_data, PyInt(5))>>))
         [] text = B_DataDbs ->
                Ok(PyDict(<<KV(S_data, PyList(<<DbRow(S_postgres_db),
                                                DbRow(S_memory)>>))>>))
         [] text = B_DataAllDbs ->
                Ok(PyDict(<<KV(S_data, PyList(<<DbRow(S_postgres_db),
                                                DbRow(S_mysql_db),
                                                DbRow(S_mariadb_db)>>))>>))
         [] text = B_DataOtherDbs ->
                Ok(PyDict(<<KV(S_data, PyList(<<DbRow(S_memory)>>))>>))
         [] text = B_DataAgg ->
                Ok(PyDict(<<KV(S_data,
                    PyList(<<PyList(<<PyStr(S_PostgreSQL), PyInt(150), PyInt(4500)>>)>>))>>))
         [] text = B_DataStrRow ->
                Ok(PyDict(<<KV(S_data,
                    PyList(<<PyList(<<PyStr(S_abc), PyStr(S_hi), PyStr(S_abc)>>)>>))>>))
         [] OTHER -> [ok |-> FALSE]

(***************************************************************************)
(* DuckDBFQEClient.                                                        *)
(***************************************************************************)
\* the request timeout the constructor stores (its default)
DefaultTimeout == 30

\* the fixed timeout of the health probe
HealthTimeout == 5

\* the seconds wait_for_ready sleeps after a failed probe
SleepSeconds == 2

Get(path, timeout) == [method |-> "GET", path |-> path, timeout |-> timeout]

Post(path, payload, timeout) ==
    [method |-> "POST", path |-> path, json |-> payload, timeout |-> timeout,
     content_type |-> "application/json"]

\* is_healthy() as it would be if a failed probe were remembered: once a
\* probe of the running wait has been made, its result is returned again
is_healthy_cached(resp) ==
    [sent |-> <<Get("/health", HealthTimeout)>>,
     outcome |-> IF probes > 0 THEN Return(last_health)
                 ELSE IF resp.kind = "http" THEN Return(resp.status = 200)
                 ELSE Return(FALSE)]

\* is_healthy(): one GET of /health; the result and the requests sent
is_healthy(resp) ==
    [sent |-> <<Get("/health", HealthTimeout)>>,
     outcome |-> IF resp.kind = "http" THEN Return(resp.status = 200)
                                        ELSE Return(FALSE)]

\* the payload execute_query posts: params is PyNone or a dict
QueryPayload(query, params) ==
    IF Truthy(params)
    THEN PyDict(<<KV(S_query, PyStr(query)), KV(S_params, params)>>)
    ELSE PyDict(<<KV(S_query, PyStr(query))>>)

\* response.json(): the decoded body, or the decoding error.  requests from
\* 2.27 on raises requests.exceptions.JSONDecodeError, a RequestException;
\* older versions raise a plain ValueError (json_is_request_exc tells which)
ResponseJson(resp, json_is_request_exc) ==
    LET r == JsonLoads(resp.text)
    IN IF r.ok THEN Return(r.value)
       ELSE IF json_is_request_exc THEN Raise("RequestException", S_JSONDecodeMsg)
       ELSE Raise("ValueError", S_JSONDecodeMsg)

\* execute_query as it would be if a non-200 answer were swallowed, as the
\* test script's execute_query does
execute_query_swallow(query, params, resp, json_is_request_exc) ==
    [sent |-> <<Post("/query", QueryPayload(query, params), DefaultTimeout)>>,
     outcome |->
        IF resp.kind = "failure"
        THEN Raise("Exception", S_RequestFailed \o ExcText(resp.exc))
        ELSE IF resp.status = 200
        THEN LET j == ResponseJson(resp, json_is_request_exc)
             IN IF j.kind = "raise" /\ j.exc = "RequestException"
                THEN Raise("Exception", S_RequestFailed \o j.msg)
                ELSE j
        ELSE Return(PyNone)]

\* execute_query as it would be without its except clause: a transport
\* failure leaves as the requests exception it is
execute_query_unwrapped(query, params, resp, json_is_request_exc) ==
    [sent |-> <<Post("/query", QueryPayload(query, params), DefaultTimeout)>>,
     outcome |->
        IF resp.kind = "failure"
        THEN Raise(resp.exc, ExcText(resp.exc))
        ELSE IF resp.status = 200
        THEN ResponseJson(resp, json_is_request_exc)
        ELSE Raise("Exception",
                   S_QueryFailed \o IntToStr(resp.status) \o S_ColonSp \o resp.text)]

\* execute_query(query, params): one POST of /query; the result and the
\* requests sent
execute_query(query, params, resp, json_is_request_exc) ==
    [sent |-> <<Post("/query", QueryPayload(query, params), DefaultTimeout)>>,
     outcome |->
        IF resp.kind = "failure"
        THEN Raise("Exception", S_RequestFailed \o ExcText(resp.exc))
        ELSE IF resp.status = 200
        THEN LET j == ResponseJson(resp, json_is_request_exc)
             IN IF j.kind = "raise" /\ j.exc = "RequestException"
                THEN Raise("Exception", S_RequestFailed \o j.msg)
                ELSE j
        ELSE Raise("Exception",
                   S_QueryFailed \o IntToStr(resp.status) \o S_ColonSp \o resp.text)]

(***************************************************************************)
(* pandas.DataFrame, as far as the client's three constructor calls go: a  *)
(* frame is its column labels and its rows of cells.                       *)
(***************************************************************************)
Frame(columns, rows) == [columns |-> columns, rows |-> rows]

RECURSIVE KeyUnion(_, _)
\* the keys of the dicts in items, each once, in first-seen order
KeyUnion(items, seen) ==
    IF Len(items) = 0 THEN seen
    ELSE LET ks == [i \in 1..Len(items[1].pairs) |-> items[1].pairs[i].key]
             new == SelectSeq(ks, LAMBDA k : \A j \in 1..Len(seen) : seen[j] # k)
         IN KeyUnion(Tail(items), seen \o new)

RECURSIVE MaxWidth(_)
\* the length of the longest list in items
MaxWidth(items) ==
    IF Len(items) = 0 THEN 0
    ELSE LET rest == MaxWidth(Tail(items))
         IN IF Len(items[1].items) > rest THEN Len(items[1].items) ELSE rest

\* pd.DataFrame(items) for a list of values of one kind: dicts give one
\* column per key, lists one column per position, scalars the single column 0
DataFrameFromList(items) ==
    IF Len(items) = 0 THEN Frame(<<>>, <<>>)
    ELSE IF items[1].type = "dict"
    THEN LET keys == KeyUnion(items, <<>>)
         IN Frame([k \in 1..Len(keys) |-> PyStr(keys[k])],
                  [r \in 1..Len(items) |->
                     [k \in 1..Len(keys) |->
                        IF HasKey(items[r], keys[k]) THEN DictGet(items[r], keys[k])
                                                     ELSE NaN]])
    ELSE IF items[1].type = "list"
    THEN LET width == MaxWidth(items)
         IN Frame([k \in 1..width |-> PyInt(k - 1)],
                  [r \in 1..Len(items) |->
                     [k \in 1..width |->
                        IF k <= Len(items[r].items) THEN items[r].items[k] ELSE NaN]])
    ELSE Frame(<<PyInt(0)>>, [r \in 1..Len(items) |-> <<items[r]>>])

\* pd.DataFrame(data, columns=columns) for a list of rows and a list of labels
DataFrameWithColumns(data, columns) ==
    IF data.type # "list" \/ columns.type # "list"
    THEN Raise("ValueError", <<>>)
    ELSE IF \E r \in 1..Len(data.items) :
               \/ data.items[r].type # "list"
               \/ Len(data.items[r].items) # Len(columns.items)
    THEN Raise("ValueError", <<>>)
    ELSE Return(Frame(columns.items, [r \in 1..Len(data.items) |-> data.items[r].items]))

\* the body of execute_query_to_dataframe after execute_query returned result
NormalizeResult(result) ==
    LET hasData == PyIn(S_data, result)
    IN IF hasData.kind = "raise" THEN hasData
       ELSE IF hasData.value /\ PyIn(S_columns, result).value
       THEN LET data == PyGetKey(result, S_data)
            IN IF data.kind = "raise" THEN data
               ELSE DataFrameWithColumns(data.value, PyGetKey(result, S_columns).value)
       ELSE IF result.type = "list" THEN Return(DataFrameFromList(result.items))
       ELSE Return(DataFrameFromList(<<result>>))

\* execute_query_to_dataframe(query, params)
execute_query_to_dataframe(query, params, resp, json_is_request_exc) ==
    LET q == execute_query(query, params, resp, json_is_request_exc)
    IN [sent |-> q.sent,
        outcome |-> IF q.outcome.kind = "raise" THEN q.outcome
                    ELSE NormalizeResult(q.outcome.value)]

\* the count count_rows extracts from the result of its query
ExtractCount(result) ==
    IF result.type = "list" /\ Len(result.items) > 0
    THEN IF result.items[1].type = "dict"
         THEN IF HasKey(result.items[1], S_count)
              THEN Return(DictGet(result.items[1], S_count))
              ELSE Return(PyInt(0))
         ELSE Raise("AttributeError", <<>>)
    ELSE IF result.type = "dict" /\ HasKey(result, S_data)
    THEN LET data == DictGet(result, S_data)
         IN IF Truthy(data)
            THEN LET row == PyGetIndex(data, 0)
                 IN IF row.kind = "raise" THEN row ELSE PyGetIndex(row.value, 0)
            ELSE Return(PyInt(0))
    ELSE Return(PyInt(0))

\* count_rows(table_name)
count_rows(table_name, resp, json_is_request_exc) ==
    LET q == execute_query(S_CountQuery \o table_name, PyNone, resp, json_is_request_exc)
    IN [sent |-> q.sent,
        outcome |-> IF q.outcome.kind = "raise" THEN q.outcome
                    ELSE ExtractCount(q.outcome.value)]

RECURSIVE FromClause_appending(_, _, _, _)
\* the loop as it would be if a table without a join condition were appended
\* to the FROM clause instead of skipped
FromClause_appending(from_clause, tables, join_conditions, i) ==
    IF i > Len(tables) - 1 THEN from_clause
    ELSE FromClause_appending(
             IF i <= Len(join_conditions)
             THEN from_clause \o S_JOIN \o tables[i + 1] \o S_ON \o join_conditions[i]
             ELSE from_clause \o S_CommaSp \o tables[i + 1],
             tables, join_conditions, i + 1)

RECURSIVE FromClause(_, _, _, _)
\* the loop of execute_federated_join over enumerate(tables[1:], 1), from i on
FromClause(from_clause, tables, join_conditions, i) ==
    IF i > Len(tables) - 1 THEN from_clause
    ELSE FromClause(IF i <= Len(join_conditions)
                    THEN from_clause \o S_JOIN \o tables[i + 1] \o S_ON \o join_conditions[i]
                    ELSE from_clause,
                    tables, join_conditions, i + 1)

\* a list of str as the texts of its items
Texts(list) == [i \in 1..Len(list.items) |-> list.items[i].chars]

SelectClause(select_columns) ==
    IF Truthy(select_columns) THEN Join(S_CommaSp, Texts(select_columns)) ELSE S_Star

WhereClause(where_conditions) ==
    IF Truthy(where_conditions) THEN S_WHERE \o Join(S_AND, Texts(where_conditions))
                                ELSE <<>>

LimitClause(limit) ==
    IF Truthy(limit) THEN S_LIMIT \o IntToStr(limit.n) ELSE <<>>

\* the statement execute_federated_join builds for a non-empty tables list
JoinQuery(tables, join_conditions, select_columns, where_conditions, limit) ==
    S_SELECT \o SelectClause(select_columns) \o S_FROM
        \o FromClause(tables[1], tables, join_conditions, 1)
        \o WhereClause(where_conditions) \o LimitClause(limit)

\* execute_federated_join(tables, join_conditions, select_columns,
\* where_conditions, limit); tables[0] of an empty list raises before any request
execute_federated_join(a, resp, json_is_request_exc) ==
    IF Len(a.tables) = 0
    THEN [sent |-> <<>>, outcome |-> Raise("IndexError", <<>>)]
    ELSE execute_query(JoinQuery(a.tables, a.join_conditions, a.select_columns,
                                 a.where_conditions, a.limit),
                       PyNone, resp, json_is_request_exc)

(***************************************************************************)
(* DuckDBFQETester, the connection test script.                            *)
(***************************************************************************)
\* the timeout wait_for_service is called with (its default)
ServiceTimeout == 60

\* the number of passed checks run_all_tests accepts
AcceptedPasses == 3

\* the exit status of a Python process ended by an uncaught exception or by
\* sys.exit(1)
ExitFailure == 1

\* DuckDBFQETester.execute_query(query): the decoded body of a 200 answer,
\* its text as {"result": text} where it is no JSON, None for another status
\* and for any exception
tester_execute_query(resp) ==
    IF resp.kind = "failure" THEN PyNone
    ELSE IF resp.status = 200
    THEN LET r == JsonLoads(resp.text)
         IN IF r.ok THEN r.value ELSE PyDict(<<KV(S_result, PyStr(resp.text))>>)
    ELSE PyNone

\* the condition  result and 'data' in result
HasData(result) ==
    IF Truthy(result) THEN PyIn(S_data, result) ELSE Return(FALSE)

\* the expression  result['data'][0][0]
FirstCell(result) ==
    LET data == PyGetKey(result, S_data)
    IN IF data.kind = "raise" THEN data
       ELSE LET row == PyGetIndex(data.value, 0)
            IN IF row.kind = "raise" THEN row ELSE PyGetIndex(row.value, 0)

RECURSIVE FirstOfEach(_)
\* the list  [row[0] for row in rows]
FirstOfEach(rows) ==
    IF Len(rows) = 0 THEN Return(<<>>)
    ELSE LET first == PyGetIndex(rows[1], 0)
         IN IF first.kind = "raise" THEN first
            ELSE LET rest == FirstOfEach(Tail(rows))
                 IN IF rest.kind = "raise" THEN rest
                    ELSE Return(<<first.value>> \o rest.value)

\* the list  [row[0] for row in result['data']]
FirstColumn(result) ==
    LET data == PyGetKey(result, S_data)
    IN IF data.kind = "raise" THEN data
       ELSE LET rows == PyIter(data.value)
            IN IF rows.kind = "raise" THEN rows ELSE FirstOfEach(rows.value)

\* the expression  name in dbs  for a list dbs
InList(name, dbs) == \E i \in 1..Len(dbs) : dbs[i] = PyStr(name)

\* the format specs  :,  and  :.2f  accept numbers only
FormatsAsNumber(v) == v.type = "int"

\* setup_databases, the check of the current databases: existing_dbs
ExistingDbs(current_dbs) ==
    LET has == HasData(current_dbs)
    IN IF has.kind = "raise" THEN has
       ELSE IF has.value THEN FirstColumn(current_dbs)
       ELSE Return(<<>>)

test_basic_connectivity(result) ==
    LET has == HasData(result)
    IN IF has.kind = "raise" THEN has
       ELSE IF has.value
       THEN LET message == FirstCell(result)
            IN IF message.kind = "raise" THEN message ELSE Return(TRUE)
       ELSE Return(FALSE)

test_show_databases(result) ==
    LET has == HasData(result)
    IN IF has.kind = "raise" THEN has
       ELSE IF has.value
       THEN LET databases == FirstColumn(result)
            IN IF databases.kind = "raise" THEN databases
               ELSE Return(\E db \in {S_postgres_db, S_mysql_db, S_mariadb_db} :
                               InList(db, databases.value))
       ELSE Return(FALSE)

\* one round of the loop of test_database_table_counts: success_count grows
\* unless the query gave no data or reading or printing the count raised
CountSucceeds(result) ==
    LET has == HasData(result)
    IN IF has.kind = "raise" THEN FALSE
       ELSE IF has.value
       THEN LET count == FirstCell(result)
            IN IF count.kind = "raise" THEN FALSE ELSE FormatsAsNumber(count.value)
       ELSE FALSE

test_database_table_counts(results) ==
    LET success_count == Cardinality({i \in 1..Len(results) : CountSucceeds(results[i])})
    IN Return(success_count >= 1)

\* the condition  result and 'data' in result and len(result['data']) > least - 1
HasRows(result, least) ==
    LET has == HasData(result)
    IN IF has.kind = "raise" THEN has
       ELSE IF has.value
       THEN LET data == PyGetKey(result, S_data)
            IN IF data.kind = "raise" THEN data
               ELSE LET n == PyLen(data.value)
                    IN IF n.kind = "raise" THEN n ELSE Return(n.value >= least)
       ELSE Return(FALSE)

\* the rows of result['data'], which HasRows found to have a length
DataRows(result) == PyIter(DictGet(result, S_data)).value

\* printing a row of the join raises unless row[2], row[0] and row[1] exist
JoinRowPrints(row) ==
    \A i \in {2, 0, 1} : PyGetIndex(row, i).kind = "return"

test_cross_database_join(result) ==
    LET has == HasRows(result, 1)
    IN IF has.kind = "raise" THEN has
       ELSE IF has.value
       THEN IF \A i \in 1..Len(DataRows(result)) : JoinRowPrints(DataRows(result)[i])
            THEN Return(TRUE)
            ELSE Raise("IndexError", <<>>)
       ELSE Return(FALSE)

\* unpacking a row of the aggregation into three names and printing the
\* count and the average as numbers raises for any other row
AggregationRowPrints(row) ==
    LET cells == PyIter(row)
    IN /\ cells.kind = "return"
       /\ Len(cells.value) = 3
       /\ FormatsAsNumber(cells.value[2])
       /\ FormatsAsNumber(cells.value[3])

test_aggregation_across_databases(result) ==
    LET has == HasRows(result, 1)
    IN IF has.kind = "raise" THEN has
       ELSE IF has.value
       THEN IF \A i \in 1..Len(DataRows(result)) :
                   AggregationRowPrints(DataRows(result)[i])
            THEN Return(TRUE)
            ELSE Raise("ValueError", <<>>)
       ELSE Return(FALSE)

\* the tests list of run_all_tests
Tests ==
    <<"Basic Connectivity", "Database Attachments", "Database Table Counts",
      "Cross-Database Join", "Multi-Database Aggregation">>

\* run_all_tests' result as it would be with > for >=
run_all_tests_result_exclusive(count, total) ==
    IF count = total THEN TRUE ELSE count > AcceptedPasses

\* what run_all_tests returns once the loop over the tests is done
run_all_tests_result(count, total) ==
    IF count = total THEN TRUE ELSE count >= AcceptedPasses

(***************************************************************************)
(* Bounds and input sets.                                                  *)
(***************************************************************************)
\* the longest tables list passed to execute_federated_join
MaxTables == 3

\* the longest join_conditions list
MaxConds == 2

\* the largest max_wait passed to wait_for_ready
MaxWaitArg == 5

\* the longest a health probe takes, in seconds
MaxProbeSeconds == 2

\* the most time.sleep oversleeps, in seconds
MaxOversleep == 1

SeqsUpTo(S, n) == UNION {[1..k -> S] : k \in 0..n}

TransportFailures == {Failure("ConnectionError"), Failure("Timeout")}

OkBodies ==
    {B_NotJson, B_Empty, B_Int, B_Zero, B_Null, B_Str, B_StrDataColumns, B_EmptyList,
     B_ListCount, B_ListNoCount, B_ListTwoRows, B_ListInt, B_Table, B_TableNoRows,
     B_TableEmptyRow, B_Object, B_EmptyObject, B_DataOnly, B_DataInt}

ErrorStatuses == {201, 404, 500}

ErrorBodies == {B_Boom, B_NotFound, B_Empty}

\* what the service may answer to a POST of /query
Responses ==
    TransportFailures
        \cup {Http(200, b) : b \in OkBodies}
        \cup {Http(s, b) : s \in ErrorStatuses, b \in ErrorBodies}

\* what the service may answer to a GET of /health
HealthResponses ==
    TransportFailures \cup {Http(s, B_NotJson) : s \in {200} \cup ErrorStatuses}

\* one answer of each outcome of execute_query, for the join builder
JoinResponses == {Failure("ConnectionError"), Http(200, B_EmptyList), Http(500, B_Boom)}

\* what the service may answer to the test script
CliFailures == {Failure("ConnectionError"), Failure("ChunkedEncodingError")}

CliBodies ==
    {B_NotJson, B_Empty, B_Int, B_Zero, B_EmptyList, B_DataOnly, B_DataEmpty,
     B_DataEmptyRow, B_DataInt, B_DataDbs, B_DataAllDbs, B_DataOtherDbs, B_DataAgg,
     B_DataStrRow}

CliResponses ==
    CliFailures \cup {Http(200, b) : b \in CliBodies} \cup {Http(500, B_Boom)}

Queries == {S_SelectOne}

ParamChoices == {PyNone, PyDict(<<>>), PyDict(<<KV(S_count, PyInt(1))>>)}

TableNames == {T_a, T_b, T_c}

JoinConds == {J_ab, J_bc}

StrList(texts) == PyList([i \in 1..Len(texts) |-> PyStr(texts[i])])

SelectChoices == {PyNone, StrList(<<Col_ax>>), StrList(<<Col_ax, Col_by>>)}

WhereChoices == {PyNone, PyList(<<>>), StrList(<<W_ax>>), StrList(<<W_ax, W_by>>)}

LimitChoices == {PyNone, PyInt(0), PyInt(10)}

\* the clock readings a call of wait_for_ready may start at
Epochs == {0, 3}

(***************************************************************************)
(* Initial state and steps.                                                *)
(***************************************************************************)
clientVars == <<op, args, response, sent, outcome>>

waitVars == <<now, start_time, max_wait, probes, sleeps, last_health, probe_elapsed>>

cliVars == <<existing_dbs, ready, setup_ok, ran, verdicts, passed, exit_code, exit_reason>>

scopeVars == <<session_closed, scope_exc, main_requests, late_requests>>

vars == <<pc, new_requests, clientVars, waitVars, cliVars, scopeVars>>

NoArgs == [none |-> TRUE]

NoResponse == [kind |-> "none"]

\* a program that uses the client, or the test script, or the example
\* program of the client module, starts
Init ==
    /\ pc \in {"idle", "cli_start", "main_start"}
    /\ new_requests \in BOOLEAN
    /\ op = "none"
    /\ args = NoArgs
    /\ response = NoResponse
    /\ sent = <<>>
    /\ outcome = NoOutcome
    /\ now = 0
    /\ start_time = 0
    /\ max_wait = 0
    /\ probes = 0
    /\ sleeps = 0
    /\ last_health = FALSE
    /\ probe_elapsed = 0
    /\ existing_dbs = <<>>
    /\ ready = FALSE
    /\ setup_ok = FALSE
    /\ ran = <<>>
    /\ verdicts = <<>>
    /\ passed = 0
    /\ exit_code = -1
    /\ exit_reason = "none"
    /\ session_closed = FALSE
    /\ scope_exc = "none"
    /\ main_requests = 0
    /\ late_requests = 0

\* the locals of wait_for_ready are gone once another method is called
WaitReset ==
    /\ now' = 0
    /\ start_time' = 0
    /\ max_wait' = 0
    /\ probes' = 0
    /\ sleeps' = 0
    /\ last_health' = FALSE
    /\ probe_elapsed' = 0

\* a method that runs to completion in one step: name, arguments, the
\* response it got and its result
Call(name, a, r, res) ==
    /\ pc = "idle"
    /\ pc' = "returned"
    /\ op' = name
    /\ args' = a
    /\ response' = r
    /\ sent' = res.sent
    /\ outcome' = res.outcome
    /\ WaitReset
    /\ UNCHANGED <<new_requests, scopeVars, cliVars>>

IsHealthy ==
    /\ pc = "idle"
    /\ \E r \in HealthResponses : Call("is_healthy", NoArgs, r, is_healthy(r))

ExecuteQuery ==
    /\ pc = "idle"
    /\ \E q \in Queries, p \in ParamChoices, r \in Responses :
           Call("execute_query", [query |-> q, params |-> p], r,
                execute_query(q, p, r, new_requests))

ExecuteQueryToDataframe ==
    /\ pc = "idle"
    /\ \E q \in Queries, r \in Responses :
           Call("execute_query_to_dataframe", [query |-> q, params |-> PyNone], r,
                execute_query_to_dataframe(q, PyNone, r, new_requests))

CountRows ==
    /\ pc = "idle"
    /\ \E t \in TableNames, r \in Responses :
           Call("count_rows", [table_name |-> t], r, count_rows(t, r, new_requests))

ExecuteFederatedJoin ==
    /\ pc = "idle"
    /\ \E t \in SeqsUpTo(TableNames, MaxTables), j \in SeqsUpTo(JoinConds, MaxConds),
          s \in SelectChoices, w \in WhereChoices, l \in LimitChoices, r \in JoinResponses :
           LET a == [tables |-> t, join_conditions |-> j, select_columns |-> s,
                     where_conditions |-> w, limit |-> l]
           IN Call("execute_federated_join", a, r,
                   execute_federated_join(a, r, new_requests))

\* the loop condition as it would be with <= for <
WaitCondition_inclusive(t, start, limit) == t - start <= limit

\* the loop condition of wait_for_ready
WaitCondition(t, start, limit) == t - start < limit

\* wait_for_ready(max_wait) is called: start_time = time.time()
WaitForReady ==
    /\ pc = "idle"
    /\ \E mw \in 0..MaxWaitArg, t \in Epochs :
           /\ max_wait' = mw
           /\ args' = [max_wait |-> mw]
           /\ now' = t
           /\ start_time' = t
    /\ pc' = "wait_loop"
    /\ op' = "wait_for_ready"
    /\ response' = NoResponse
    /\ sent' = <<>>
    /\ outcome' = NoOutcome
    /\ probes' = 0
    /\ sleeps' = 0
    /\ last_health' = FALSE
    /\ probe_elapsed' = 0
    /\ UNCHANGED <<new_requests, scopeVars, cliVars>>

\* the loop condition holds: is_healthy() is called, and its result either
\* returns True or leads to the sleep
WaitProbe ==
    /\ pc = "wait_loop"
    /\ WaitCondition(now, start_time, max_wait)
    /\ \E r \in HealthResponses, d \in 0..MaxProbeSeconds :
           LET h == is_healthy(r)
           IN /\ response' = r
              /\ sent' = sent \o h.sent
              /\ now' = now + d
              /\ last_health' = h.outcome.value
              /\ IF h.outcome.value
                 THEN pc' = "returned" /\ outcome' = Return(TRUE)
                 ELSE pc' = "wait_sleep" /\ outcome' = NoOutcome
    /\ probes' = probes + 1
    /\ probe_elapsed' = now - start_time
    /\ UNCHANGED <<new_requests, scopeVars, op, args, start_time, max_wait, sleeps, cliVars>>

\* time.sleep(2) after a probe that was not healthy
WaitSleep ==
    /\ pc = "wait_sleep"
    /\ \E extra \in 0..MaxOversleep : now' = now + SleepSeconds + extra
    /\ sleeps' = sleeps + 1
    /\ pc' = "wait_loop"
    /\ UNCHANGED <<new_requests, scopeVars, clientVars, start_time, max_wait, probes,
                   last_health, probe_elapsed, cliVars>>

\* the loop condition fails: return False
WaitTimeout ==
    /\ pc = "wait_loop"
    /\ ~WaitCondition(now, start_time, max_wait)
    /\ pc' = "returned"
    /\ outcome' = Return(FALSE)
    /\ UNCHANGED <<new_requests, scopeVars, op, args, response, sent, waitVars, cliVars>>

NextWait ==
    \/ WaitForReady
    \/ WaitProbe
    \/ WaitSleep
    \/ WaitTimeout

\* the caller is done with the result of a call and goes on
CallerContinues ==
    /\ pc = "returned"
    /\ pc' = "idle"
    /\ op' = "none"
    /\ args' = NoArgs
    /\ response' = NoResponse
    /\ sent' = <<>>
    /\ outcome' = NoOutcome
    /\ WaitReset
    /\ UNCHANGED <<new_requests, scopeVars, cliVars>>

(***************************************************************************)
(* The test script: run_all_tests and the exit of the process.             *)
(***************************************************************************)
\* the process ends with an exit status
Exit(code, reason) ==
    /\ pc' = "exited"
    /\ exit_code' = code
    /\ exit_reason' = reason
    /\ now' = 0
    /\ start_time' = 0
    /\ existing_dbs' = <<>>

\* wait_for_service() is called: start_time = time.time()
WaitForService ==
    /\ pc = "cli_start"
    /\ pc' = "service_loop"
    /\ \E t \in Epochs : now' = t /\ start_time' = t
    /\ UNCHANGED <<new_requests, scopeVars, clientVars, max_wait, probes, sleeps, last_health,
                   probe_elapsed, cliVars>>

\* one round of the loop of wait_for_service: a GET of / that returns True on
\* status 200, then time.sleep(2); only a ConnectionError is caught
ServiceProbe ==
    /\ pc = "service_loop"
    /\ WaitCondition(now, start_time, ServiceTimeout)
    /\ \E r \in CliFailures \cup {Http(s, B_NotJson) : s \in {200, 500}},
          d \in 0..MaxProbeSeconds, extra \in 0..MaxOversleep :
           IF r.kind = "http" /\ r.status = 200
           THEN /\ pc' = "setup_extensions"
                /\ ready' = TRUE
                /\ now' = 0
                /\ start_time' = 0
                /\ UNCHANGED <<existing_dbs, exit_code, exit_reason>>
           ELSE IF r.kind = "failure" /\ r.exc # "ConnectionError"
           THEN Exit(ExitFailure, "uncaught") /\ UNCHANGED ready
           ELSE /\ pc' = "service_loop"
                /\ now' = now + d + SleepSeconds + extra
                /\ UNCHANGED <<start_time, ready, existing_dbs, exit_code, exit_reason>>
    /\ UNCHANGED <<new_requests, scopeVars, clientVars, max_wait, probes, sleeps, last_health,
                   probe_elapsed, setup_ok, ran, verdicts, passed>>

\* wait_for_service returns False: run_all_tests calls sys.exit(1)
ServiceTimedOut ==
    /\ pc = "service_loop"
    /\ ~WaitCondition(now, start_time, ServiceTimeout)
    /\ Exit(ExitFailure, "not_ready")
    /\ UNCHANGED <<new_requests, scopeVars, clientVars, max_wait, probes, sleeps, last_health,
                   probe_elapsed, ready, setup_ok, ran, verdicts, passed>>

cliFrame ==
    UNCHANGED <<new_requests, scopeVars, clientVars, max_wait, probes, sleeps, last_health,
                probe_elapsed, ready, ran, verdicts, passed>>

\* setup_databases: the extensions are installed and loaded
SetupExtensions ==
    /\ pc = "setup_extensions"
    /\ \E r \in CliResponses :
           IF Truthy(tester_execute_query(r))
           THEN /\ pc' = "setup_show"
                /\ UNCHANGED <<now, start_time, existing_dbs, exit_code, exit_reason>>
           ELSE Exit(ExitFailure, "setup_failed")
    /\ UNCHANGED setup_ok
    /\ cliFrame

\* setup_databases: SHOW DATABASES gives existing_dbs
SetupShowDatabases ==
    /\ pc = "setup_show"
    /\ \E r \in CliResponses :
           LET dbs == ExistingDbs(tester_execute_query(r))
           IN IF dbs.kind = "raise"
              THEN Exit(ExitFailure, "uncaught")
              ELSE /\ pc' = "attach_postgres"
                   /\ existing_dbs' = dbs.value
                   /\ UNCHANGED <<now, start_time, exit_code, exit_reason>>
    /\ UNCHANGED setup_ok
    /\ cliFrame

\* setup_databases: a database that is not attached yet is attached, and
\* after the last one setup_databases returns True
SetupAttach ==
    /\ pc \in {"attach_postgres", "attach_mysql", "attach_mariadb"}
    /\ LET name == CASE pc = "attach_postgres" -> S_postgres_db
                     [] pc = "attach_mysql" -> S_mysql_db
                     [] OTHER -> S_mariadb_db
           Attached == /\ pc' = CASE pc = "attach_postgres" -> "attach_mysql"
                                  [] pc = "attach_mysql" -> "attach_mariadb"
                                  [] OTHER -> "tests"
                       /\ setup_ok' = (pc = "attach_mariadb")
                       /\ existing_dbs' = IF pc = "attach_mariadb" THEN <<>>
                                          ELSE existing_dbs
                       /\ UNCHANGED <<now, start_time, exit_code, exit_reason>>
       IN IF InList(name, existing_dbs)
          THEN Attached
          ELSE \E r \in CliResponses :
                   IF Truthy(tester_execute_query(r))
                   THEN Attached
                   ELSE Exit(ExitFailure, "setup_failed") /\ UNCHANGED setup_ok
    /\ cliFrame

\* the check at position k of the tests list, on the results of its queries
RunCheck(k, results) ==
    CASE k = 1 -> test_basic_connectivity(results[1])
      [] k = 2 -> test_show_databases(results[1])
      [] k = 3 -> test_database_table_counts(results)
      [] k = 4 -> test_cross_database_join(results[1])
      [] OTHER -> test_aggregation_across_databases(results[1])

\* the number of queries the check at position k sends
QueriesOf(k) == IF k = 3 THEN 3 ELSE 1

\* one round of the loop of run_all_tests: the next check runs, and counts
\* as passed if it returned True; an exception it raised is caught
RunTest ==
    /\ pc = "tests"
    /\ Len(ran) < Len(Tests)
    /\ LET k == Len(ran) + 1
       IN \E rs \in [1..QueriesOf(k) -> CliResponses] :
              LET o == RunCheck(k, [i \in 1..QueriesOf(k) |-> tester_execute_query(rs[i])])
              IN /\ ran' = Append(ran, Tests[k])
                 /\ verdicts' = Append(verdicts,
                                       IF o.kind = "raise" THEN "raise"
                                       ELSE IF o.value THEN "pass" ELSE "fail")
                 /\ passed' = IF o.kind = "return" /\ o.value THEN passed + 1
                              ELSE passed
    /\ pc' = "tests"
    /\ UNCHANGED <<new_requests, scopeVars, clientVars, waitVars, existing_dbs, ready, setup_ok,
                   exit_code, exit_reason>>

\* the loop is done: run_all_tests returns and the process exits with 0 if
\* it returned True, with 1 if not
Report ==
    /\ pc = "tests"
    /\ Len(ran) = Len(Tests)
    /\ Exit(IF run_all_tests_result(passed, Len(Tests)) THEN 0 ELSE 1, "report")
    /\ UNCHANGED <<new_requests, scopeVars, clientVars, max_wait, probes, sleeps, last_health,
                   probe_elapsed, ready, setup_ok, ran, verdicts, passed>>

\* ---------------------------------------------------------------------------
\* The example program of the client module: one with block around the client
\* ---------------------------------------------------------------------------

\* the string "SELECT version()"
S_Version ==
    <<"S","E","L","E","C","T"," ","v","e","r","s","i","o","n","(",")">>

\* the string "SHOW DATABASES"
S_ShowDatabases ==
    <<"S","H","O","W"," ","D","A","T","A","B","A","S","E","S">>

\* the string "SHOW TABLES FROM "
S_ShowTablesFrom ==
    <<"S","H","O","W"," ","T","A","B","L","E","S"," ","F","R","O","M"," ">>

\* the string "SELECT * FROM federated_tables"
S_FederatedTables ==
    <<"S","E","L","E","C","T"," ","*"," ","F","R","O","M"," ","f","e","d","e","r","a","t","e",
    "d","_","t","a","b","l","e","s">>

\* the string "SELECT 'Hello from DuckDB FQE!' as message"
S_Hello ==
    <<"S","E","L","E","C","T"," ","'","H","e","l","l","o"," ","f","r","o","m"," ","D","u","c",
    "k","D","B"," ","F","Q","E","!","'"," ","a","s"," ","m","e","s","s","a","g","e">>

\* max_wait of wait_for_ready when the caller passes none
DefaultMaxWait == 60

\* what the service may answer to the example program
MainResponses ==
    {Failure("ConnectionError"), Http(200, B_EmptyList), Http(200, B_NotJson),
     Http(500, B_Boom)}

get_databases(resp, json_is_request_exc) ==
    execute_query(S_ShowDatabases, PyNone, resp, json_is_request_exc)

\* database is PyNone or a str
get_tables(database, resp, json_is_request_exc) ==
    execute_query(IF Truthy(database) THEN S_ShowTablesFrom \o database.chars
                                      ELSE S_FederatedTables,
                  PyNone, resp, json_is_request_exc)

\* get_connection_info: the probe, then the version and the databases inside
\* a try that turns any Exception into the "error" entry; resps are the
\* answers to the two queries; a key the code does not set is "absent" here
get_connection_info(health_resp, resps, json_is_request_exc) ==
    LET h == is_healthy(health_resp)
        v == execute_query(S_Version, PyNone, resps[1], json_is_request_exc)
        d == get_databases(resps[2], json_is_request_exc)
        versionSet == v.outcome.kind = "return" /\ Truthy(v.outcome.value)
    IN [sent |-> h.sent \o v.sent \o
                   (IF v.outcome.kind = "return" THEN d.sent ELSE <<>>),
        outcome |-> Return(
            [healthy |-> h.outcome.value,
             version |-> IF versionSet THEN v.outcome.value ELSE PyNone,
             databases |-> IF v.outcome.kind = "return" /\ d.outcome.kind = "return"
                           THEN d.outcome.value ELSE PyNone,
             error |-> IF v.outcome.kind = "raise" THEN v.outcome.msg
                       ELSE IF d.outcome.kind = "raise" THEN d.outcome.msg
                       ELSE "absent"])]

\* close(): session.close(); closed is whether the session was closed before
close(closed) == TRUE

\* an exit of the with block that releases the session on a clean exit only
exit_on_success(closed, exc_type) ==
    IF exc_type = "none" THEN close(closed) ELSE closed

\* __exit__: close() whatever exc_type is; the session's state afterwards
client_exit(closed, exc_type) == close(closed)

\* n requests go out on the session
SessionRequests(n) ==
    /\ main_requests' = main_requests + n
    /\ late_requests' = late_requests + (IF session_closed THEN n ELSE 0)

mainFrame == UNCHANGED <<new_requests, op, args, response, sent, max_wait, probes, sleeps,
                         last_health, probe_elapsed, cliVars>>

\* DuckDBFQEClient() and __enter__, then wait_for_ready() reads the clock
MainEnter ==
    /\ pc = "main_start"
    /\ pc' = "main_wait"
    /\ session_closed' = FALSE
    /\ \E t \in Epochs : now' = t /\ start_time' = t
    /\ UNCHANGED <<outcome, scope_exc, main_requests, late_requests>>
    /\ mainFrame

\* one round of the loop of wait_for_ready(): the probe and, when it is not
\* healthy, time.sleep(2)
MainWaitProbe ==
    /\ pc = "main_wait"
    /\ WaitCondition(now, start_time, DefaultMaxWait)
    /\ \E r \in HealthResponses, d \in 0..MaxProbeSeconds, extra \in 0..MaxOversleep :
           LET h == is_healthy(r)
           IN /\ SessionRequests(Len(h.sent))
              /\ IF h.outcome.value
                 THEN pc' = "main_info" /\ now' = 0 /\ start_time' = 0
                 ELSE /\ pc' = "main_wait"
                      /\ now' = now + d + SleepSeconds + extra
                      /\ UNCHANGED start_time
    /\ UNCHANGED <<outcome, session_closed, scope_exc>>
    /\ mainFrame

\* wait_for_ready() returns False: exit(1) raises SystemExit inside the block
MainNotReady ==
    /\ pc = "main_wait"
    /\ ~WaitCondition(now, start_time, DefaultMaxWait)
    /\ pc' = "main_exit"
    /\ scope_exc' = "SystemExit"
    /\ UNCHANGED <<outcome, now, start_time, session_closed, main_requests, late_requests>>
    /\ mainFrame

\* info = client.get_connection_info() and its print
MainConnectionInfo ==
    /\ pc = "main_info"
    /\ \E hr \in HealthResponses, rs \in [1..2 -> MainResponses] :
           LET info == get_connection_info(hr, rs, new_requests)
           IN /\ SessionRequests(Len(info.sent))
              /\ outcome' = info.outcome
    /\ pc' = "main_queries"
    /\ UNCHANGED <<now, start_time, session_closed, scope_exc>>
    /\ mainFrame

\* the try of the example: three queries, the first Exception ends it and is
\* printed; the block is then left without an exception
MainQueries ==
    /\ pc = "main_queries"
    /\ \E rs \in [1..3 -> MainResponses] :
           LET q1 == execute_query(S_Hello, PyNone, rs[1], new_requests)
               q2 == get_databases(rs[2], new_requests)
               q3 == get_tables(PyNone, rs[3], new_requests)
           IN IF q1.outcome.kind = "raise"
              THEN SessionRequests(Len(q1.sent)) /\ outcome' = q1.outcome
              ELSE IF q2.outcome.kind = "raise"
              THEN SessionRequests(Len(q1.sent \o q2.sent)) /\ outcome' = q2.outcome
              ELSE SessionRequests(Len(q1.sent \o q2.sent \o q3.sent))
                       /\ outcome' = q3.outcome
    /\ pc' = "main_exit"
    /\ scope_exc' = "none"
    /\ UNCHANGED <<now, start_time, session_closed>>
    /\ mainFrame

\* Ctrl-C while the block runs: KeyboardInterrupt is no Exception, so no
\* except clause of the module catches it
MainInterrupt ==
    /\ pc \in {"main_wait", "main_info", "main_queries"}
    /\ pc' = "main_exit"
    /\ scope_exc' = "KeyboardInterrupt"
    /\ UNCHANGED <<outcome, now, start_time, session_closed, main_requests, late_requests>>
    /\ mainFrame

\* the with block is left: __exit__ runs and returns None, so the exception,
\* if any, goes on to end the program; nothing follows the block
ScopeExit ==
    /\ pc = "main_exit"
    /\ pc' = "main_done"
    /\ session_closed' = client_exit(session_closed, scope_exc)
    /\ UNCHANGED <<outcome, now, start_time, scope_exc, main_requests, late_requests>>
    /\ mainFrame

Next ==
    \/ CallerContinues
    \/ IsHealthy
    \/ ExecuteQuery
    \/ ExecuteQueryToDataframe
    \/ CountRows
    \/ ExecuteFederatedJoin
    \/ WaitForReady
    \/ WaitProbe
    \/ WaitSleep
    \/ WaitTimeout
    \/ WaitForService
    \/ ServiceProbe
    \/ ServiceTimedOut
    \/ SetupExtensions
    \/ SetupShowDatabases
    \/ SetupAttach
    \/ RunTest
    \/ Report
    \/ MainEnter
    \/ MainWaitProbe
    \/ MainNotReady
    \/ MainConnectionInfo
    \/ MainQueries
    \/ MainInterrupt
    \/ ScopeExit

Spec == Init /\ [][Next]_vars

\* the calls of wait_for_ready alone; the single caller is synchronous, so a
\* step that can be taken is taken
WaitNext == NextWait \/ CallerContinues

WaitSpec == Init /\ [][WaitNext]_vars /\ WF_vars(WaitNext)

(***************************************************************************)
(* Helpers of the properties.                                              *)
(***************************************************************************)
Returned(name) == pc = "returned" /\ op = name

NonOk(r) == r.kind = "http" /\ r.status # 200

StartsWith(s, prefix) == Len(s) >= Len(prefix) /\ SubSeq(s, 1, Len(prefix)) = prefix

\* s without its first n characters
Drop(s, n) == SubSeq(s, n + 1, Len(s))

RECURSIVE ParseInt(_)
\* the number a run of decimal digits writes; -1 if it is no such run
ParseInt(s) ==
    LET digit(c) == CASE c = "0" -> 0 [] c = "1" -> 1 [] c = "2" -> 2 [] c = "3" -> 3
                      [] c = "4" -> 4 [] c = "5" -> 5 [] c = "6" -> 6 [] c = "7" -> 7
                      [] c = "8" -> 8 [] c = "9" -> 9 [] OTHER -> -1
    IN IF Len(s) = 0 THEN -1
       ELSE IF digit(s[Len(s)]) = -1 THEN -1
       ELSE IF Len(s) = 1 THEN digit(s[1])
       ELSE LET high == ParseInt(SubSeq(s, 1, Len(s) - 1))
            IN IF high = -1 THEN -1 ELSE 10 * high + digit(s[Len(s)])

\* the index of the first c in s, or 0
IndexOf(s, c) ==
    IF \E i \in 1..Len(s) : s[i] = c
    THEN CHOOSE i \in 1..Len(s) : s[i] = c /\ \A j \in 1..(i - 1) : s[j] # c
    ELSE 0

RECURSIVE Split(_, _)
\* s.split(c)
Split(s, c) ==
    LET i == IndexOf(s, c)
    IN IF i = 0 THEN <<s>> ELSE <<SubSeq(s, 1, i - 1)>> \o Split(Drop(s, i), c)

\* the text of the statement a call posted
PostedQuery == DictGet(sent[1].json, S_query).chars

(***************************************************************************)
(* C1.  A POST answered with a status other than 200 makes execute_query   *)
(* raise an error whose message holds the status code and the body text    *)
(* unchanged, after exactly one POST: no retry, nothing swallowed.         *)
(***************************************************************************)
C1_NonOkRaisesWithStatusAndBody ==
    (Returned("execute_query") /\ NonOk(response)) =>
        /\ Len(sent) = 1
        /\ sent[1].method = "POST"
        /\ outcome.kind = "raise"
        /\ StartsWith(outcome.msg, S_QueryFailed)
        /\ LET rest == Drop(outcome.msg, Len(S_QueryFailed))
               colon == IndexOf(rest, ":")
           IN /\ colon > 1
              /\ ParseInt(SubSeq(rest, 1, colon - 1)) = response.status
              /\ StartsWith(Drop(rest, colon - 1), S_ColonSp)
              /\ Drop(rest, colon + 1) = response.text

C1_Witness ==
    /\ Returned("execute_query")
    /\ response = Http(500, B_Boom)
    /\ outcome.kind = "raise"

(***************************************************************************)
(* C2 as claimed.  A transport failure makes execute_query raise an error  *)
(* whose kind differs from the kind raised for every non-200 status.       *)
(***************************************************************************)
C2_DistinctErrorKinds ==
    (Returned("execute_query") /\ response.kind = "failure") =>
        /\ outcome.kind = "raise"
        /\ \A r \in Responses :
               NonOk(r) =>
                   execute_query(args.query, args.params, r, new_requests).outcome.exc
                       # outcome.exc

(***************************************************************************)
(* C2 as amended.  A transport failure makes execute_query raise a plain   *)
(* Exception whose message is "Request failed: " and the text of the       *)
(* transport error; the error of a non-200 status has the same kind and    *)
(* another message, which starts "Query failed with status".               *)
(***************************************************************************)
C2_SameKindDistinctMessage ==
    (Returned("execute_query") /\ response.kind = "failure") =>
        /\ outcome.kind = "raise"
        /\ outcome.exc = "Exception"
        /\ outcome.msg = S_RequestFailed \o ExcText(response.exc)
        /\ \A r \in Responses :
               NonOk(r) =>
                   LET o == execute_query(args.query, args.params, r,
                                          new_requests).outcome
                   IN /\ o.exc = outcome.exc
                      /\ StartsWith(o.msg, S_QueryFailed)
                      /\ ~StartsWith(o.msg, S_RequestFailed)

C2_Witness ==
    /\ Returned("execute_query")
    /\ response = Failure("ConnectionError")
    /\ outcome.kind = "raise"

(***************************************************************************)
(* C3 as claimed.  A 200 answer whose body is no JSON document does not    *)
(* make execute_query fail: it returns the raw text in a one-field result. *)
(***************************************************************************)
C3_RawTextFallback ==
    (Returned("execute_query") /\ response.kind = "http" /\ response.status = 200
        /\ ~JsonLoads(response.text).ok) =>
        outcome = Return(PyDict(<<KV(S_result, PyStr(response.text))>>))

(***************************************************************************)
(* C4 as claimed.  execute_query_to_dataframe never raises on a decoded    *)
(* 200 answer: every shape gives a frame, and a value that is neither a    *)
(* list nor a keyed object gives one row and one column holding the value. *)
(***************************************************************************)
C4_NormalizationTotal ==
    (Returned("execute_query_to_dataframe") /\ response.kind = "http" /\ response.status = 200
        /\ JsonLoads(response.text).ok) =>
        /\ outcome.kind = "return"
        /\ LET v == JsonLoads(response.text).value
           IN v.type \notin {"list", "dict"} =>
                  /\ Len(outcome.value.columns) = 1
                  /\ outcome.value.rows = <<(<<v>>)>>

\* " FROM " without its two blanks, and so on
Keyword(s) == SubSeq(s, 2, Len(s) - 1)

\* the blank-separated words of the FROM clause of a statement: those after
\* the first FROM, up to a WHERE or a LIMIT
FromWords(sql) ==
    LET words == Split(sql, " ")
        from == IndexOf(words, Keyword(S_FROM))
        ends == {i \in (from + 1)..Len(words) :
                    words[i] \in {Keyword(S_WHERE), Keyword(S_LIMIT)}}
        last == IF ends = {} THEN Len(words)
                ELSE (CHOOSE i \in ends : \A j \in ends : i <= j) - 1
    IN SubSeq(words, from + 1, last)

RECURSIVE Concat(_)
\* the strings of a sequence, one after the other
Concat(parts) == IF Len(parts) = 0 THEN <<>> ELSE parts[1] \o Concat(Tail(parts))

IsJoinCall == Returned("execute_federated_join") /\ Len(sent) = 1

(***************************************************************************)
(* C5 as claimed.  With fewer join conditions than len(tables) - 1, the    *)
(* i-th condition is paired with the i-th table after the first, and every *)
(* table of the input still is a word of the FROM clause.                  *)
(***************************************************************************)
C5_RemainingTablesAppended ==
    (IsJoinCall /\ Len(args.join_conditions) < Len(args.tables) - 1) =>
        LET words == FromWords(PostedQuery)
        IN /\ \A i \in 1..Len(args.join_conditions) :
                  /\ Len(words) >= 4 * i + 1
                  /\ SubSeq(words, 4 * i - 2, 4 * i + 1)
                         = <<Keyword(S_JOIN), args.tables[i + 1], Keyword(S_ON),
                             args.join_conditions[i]>>
           /\ \A k \in 1..Len(args.tables) :
                  \E w \in 1..Len(words) : words[w] = args.tables[k]

(***************************************************************************)
(* C5 as amended.  With fewer join conditions than len(tables) - 1, the    *)
(* FROM clause is the first table, then JOIN t ON c for the i-th condition *)
(* and the i-th table after the first, and nothing else: the tables        *)
(* without a condition are left out of the statement.                      *)
(***************************************************************************)
C5_RemainingTablesOmitted ==
    (IsJoinCall /\ Len(args.join_conditions) < Len(args.tables) - 1) =>
        FromWords(PostedQuery) =
            <<args.tables[1]>> \o
            Concat([i \in 1..Len(args.join_conditions) |->
                       <<Keyword(S_JOIN), args.tables[i + 1], Keyword(S_ON),
                         args.join_conditions[i]>>])

C5_Witness ==
    /\ IsJoinCall
    /\ args.tables = <<T_a, T_b, T_c>>
    /\ args.join_conditions = <<J_ab>>
    /\ FromWords(PostedQuery) = <<T_a, Keyword(S_JOIN), T_b, Keyword(S_ON), J_ab>>

\* the statement C6 describes for the arguments a
ClaimedJoinStatement(a) ==
    S_SELECT
        \o (IF a.select_columns.type = "list" /\ Len(a.select_columns.items) > 0
            THEN Join(S_CommaSp, Texts(a.select_columns)) ELSE S_Star)
        \o S_FROM \o a.tables[1]
        \o Concat([i \in 1..(Len(a.tables) - 1) |->
                      S_JOIN \o a.tables[i + 1] \o S_ON \o a.join_conditions[i]])
        \o (IF a.where_conditions.type = "list" /\ Len(a.where_conditions.items) > 0
            THEN S_WHERE \o Join(S_AND, Texts(a.where_conditions)) ELSE <<>>)
        \o (IF a.limit.type = "int" THEN S_LIMIT \o IntToStr(a.limit.n) ELSE <<>>)

(***************************************************************************)
(* C6 as claimed.  With exactly len(tables) - 1 join conditions the posted *)
(* statement is SELECT columns-or-* FROM t0 JOIN t1 ON c0 ..., then WHERE  *)
(* exactly when where conditions are given and LIMIT n exactly when a      *)
(* limit n is given.                                                       *)
(***************************************************************************)
C6_ExactStatement ==
    (IsJoinCall /\ Len(args.join_conditions) = Len(args.tables) - 1) =>
        PostedQuery = ClaimedJoinStatement(args)

\* the two worked examples of C6 do produce the quoted statements
C6_WorkedExamples ==
    /\ JoinQuery(<<T_a, T_b, T_c>>, <<J_ab, J_bc>>, PyNone, PyNone, PyNone) = S_Example1
    /\ JoinQuery(<<T_a, T_b>>, <<J_ab>>, StrList(<<Col_ax>>), StrList(<<W_ax>>), PyInt(10))
           = S_Example2

(***************************************************************************)
(* C7 as claimed.  count_rows never raises on a decoded 200 answer: it     *)
(* returns the first column of the first row, and 0 when there is none     *)
(* (an empty list, no rows, an empty first row, a first row that is no     *)
(* keyed object, any other shape).                                         *)
(***************************************************************************)
C7_CountDefaultsToZero ==
    (Returned("count_rows") /\ response.kind = "http" /\ response.status = 200
        /\ JsonLoads(response.text).ok) =>
        /\ outcome.kind = "return"
        /\ LET v == JsonLoads(response.text).value
               keyedRow == /\ v.type = "list"
                           /\ Len(v.items) > 0
                           /\ v.items[1].type = "dict"
                           /\ Len(v.items[1].pairs) > 0
               tableRow == /\ v.type = "dict"
                           /\ HasKey(v, S_data)
                           /\ DictGet(v, S_data).type = "list"
                           /\ Len(DictGet(v, S_data).items) > 0
                           /\ DictGet(v, S_data).items[1].type = "list"
                           /\ Len(DictGet(v, S_data).items[1].items) > 0
           IN outcome.value =
                  IF keyedRow THEN v.items[1].pairs[1].val
                  ELSE IF tableRow THEN DictGet(v, S_data).items[1].items[1]
                  ELSE PyInt(0)

(***************************************************************************)
(* C8.  wait_for_ready probes only while now - start_time < max_wait,      *)
(* sleeps after each failed probe, returns True at the first healthy probe *)
(* and False only once the deadline has passed with no healthy probe, so   *)
(* wait_for_ready(0) returns False with no probe and no sleep; and every   *)
(* call returns.                                                           *)
(***************************************************************************)
C8_WaitSafety ==
    op = "wait_for_ready" =>
        /\ probes > 0 => probe_elapsed < max_wait
        /\ now - start_time >= SleepSeconds * sleeps
        /\ pc = "wait_loop" => sleeps = probes
        /\ pc = "wait_sleep" => sleeps = probes - 1 /\ ~last_health
        /\ pc = "returned" =>
               /\ outcome.kind = "return"
               /\ outcome.value => probes >= 1 /\ last_health /\ sleeps = probes - 1
               /\ ~outcome.value =>
                      /\ now - start_time >= max_wait
                      /\ ~last_health
                      /\ sleeps = probes
               /\ max_wait = 0 => ~outcome.value /\ probes = 0 /\ sleeps = 0

C8_WaitForReady ==
    /\ []C8_WaitSafety
    /\ (pc \in {"wait_loop", "wait_sleep"}) ~> (pc = "returned")

C8_Witness ==
    /\ Returned("wait_for_ready")
    /\ outcome = Return(FALSE)
    /\ probes >= 2
    /\ sleeps = probes

(***************************************************************************)
(* C9.  is_healthy never raises: it sends one GET of /health and returns   *)
(* True exactly when the answer has status 200, False on every transport   *)
(* failure and every other status; and a probe's result is that of its own *)
(* answer, whatever an earlier probe returned.                             *)
(***************************************************************************)
C9_IsHealthyFreshBoolean ==
    LET fresh == response.kind = "http" /\ response.status = 200
    IN /\ Returned("is_healthy") =>
              /\ outcome = Return(fresh)
              /\ sent = <<Get("/health", HealthTimeout)>>
       /\ (op = "wait_for_ready" /\ probes > 0) =>
              /\ last_health = fresh
              /\ Len(sent) = probes
              /\ \A i \in 1..Len(sent) : sent[i] = Get("/health", HealthTimeout)

C9_Witness ==
    /\ op = "wait_for_ready"
    /\ probes >= 2
    /\ response = Http(200, B_NotJson)
    /\ last_health

\* the number of checks that passed
RECURSIVE NumPass(_)
NumPass(vs) ==
    IF Len(vs) = 0 THEN 0
    ELSE (IF vs[1] = "pass" THEN 1 ELSE 0) + NumPass(Tail(vs))

(***************************************************************************)
(* C10.  The test script exits with 0 exactly when at least 3 of its 5     *)
(* checks passed and with 1 otherwise; a check that raised did not pass;   *)
(* the checks run in the order of the tests list; and none runs unless     *)
(* wait_for_service and then setup_databases succeeded, the failure of     *)
(* either ending the process with 1.                                       *)
(***************************************************************************)
C10_ExitCode ==
    /\ ran = SubSeq(Tests, 1, Len(ran))
    /\ Len(verdicts) = Len(ran)
    /\ passed = NumPass(verdicts)
    /\ Len(ran) > 0 => ready /\ setup_ok
    /\ setup_ok => ready
    /\ pc = "exited" =>
           /\ exit_code = IF NumPass(verdicts) >= 3 THEN 0 ELSE 1
           /\ (~ready \/ ~setup_ok) => exit_code = 1 /\ ran = <<>>
           /\ (ready /\ setup_ok) => Len(ran) = 5
    /\ pc # "exited" => exit_code = -1

C10_Witness ==
    /\ pc = "exited"
    /\ exit_code = 0
    /\ NumPass(verdicts) = 3
    /\ \E i \in 1..Len(verdicts) : verdicts[i] = "raise"

\* C11: in the with block of the example program the session is closed on
\* every way out of the block (the block ends, exit(1) raises SystemExit, a
\* KeyboardInterrupt passes through), it is closed by nothing but that exit,
\* and no request goes out on the session once it is closed
C11_ScopedRelease ==
    /\ pc = "main_done" => session_closed
    /\ session_closed => pc = "main_done"
    /\ late_requests = 0

\* the block was left by an exception after requests went out, and the
\* session is closed
C11_Witness ==
    /\ pc = "main_done"
    /\ scope_exc # "none"
    /\ main_requests > 0
    /\ session_closed

====
